---- MODULE Spec2Model ----
(***************************************************************************)
(* Model of src/api/index.js: the process runner exec(), the job registry  *)
(* app.locals.jobs with launchJob(), and the two request handlers          *)
(* POST /api/ereader and GET /api/job/:id.                                 *)
(*                                                                         *)
(* One action is one task of the Node event loop: a callback or request    *)
(* handler run to completion together with the promise reactions           *)
(* (microtasks) it makes runnable.  Time is abstracted: an armed timer may *)
(* fire at any moment, its delay is kept as data.                          *)
(***************************************************************************)
EXTENDS Integers, Sequences, FiniteSets, TLC

VARIABLES
    server,     \* "running" | "crashed": the Node process
    mode,       \* --unhandled-rejections mode of the runtime: "throw" | "warn"
    faults,     \* faults that reached the process level: [kind, op]
    nuuid,      \* number of uuidv4() values generated so far
    jobs,       \* app.locals.jobs: function from job id to operation index
    ops,        \* one record per exec() call, in call order
    polls,      \* one record per GET /api/job/:id request, in arrival order
    posts,      \* one response per POST /api/ereader request, in arrival order
    registered  \* history: <<id, op>> for every launchJob() return, in order

vars == <<server, mode, faults, nuuid, jobs, ops, polls, posts, registered>>

----------------------------------------------------------------------------
(* Bounds of the model. *)

MaxPosts == 2    \* POST /api/ereader requests
MaxPolls == 2    \* GET /api/job/:id requests
MaxChunks == 2   \* stdout 'data' events over all operations
MaxExecs == 1    \* direct exec() calls (SpecExec)

----------------------------------------------------------------------------
(* JavaScript values. *)

Undefined == [t |-> "undefined"]
JNull == [t |-> "null"]
NaN == [t |-> "NaN"]
Num(n) == [t |-> "number", v |-> n]
PromiseOf(o) == [t |-> "promise", op |-> o]

Str(s) == [t |-> "string", s |-> s]

\* ToBoolean: 0, NaN, '', null and undefined are falsy.
Truthy(v) ==
    CASE v.t = "number" -> v.v # 0
      [] v.t = "string" -> Len(v.s) > 0
      [] v.t = "promise" -> TRUE
      [] OTHER -> FALSE

\* parseInt(v) of a string (a tuple of characters) or of undefined, which
\* parses as the text "undefined": the longest prefix of an optional sign and
\* decimal digits, NaN when it holds no digit.
Digits == <<"0", "1", "2", "3", "4", "5", "6", "7", "8", "9">>
IsDigit(c) == \E d \in 1..10 : Digits[d] = c
DigitVal(c) == (CHOOSE d \in 1..10 : Digits[d] = c) - 1
RECURSIVE ParseDigits(_, _, _)
ParseDigits(s, i, acc) ==
    IF i > Len(s) \/ ~IsDigit(s[i]) THEN acc
    ELSE ParseDigits(s, i + 1, acc * 10 + DigitVal(s[i]))
parseInt(v) ==
    IF v.t # "string" THEN NaN
    ELSE IF Len(v.s) = 0 THEN NaN
    ELSE LET s == v.s
             neg == s[1] = "-"
             from == IF s[1] \in {"-", "+"} THEN 2 ELSE 1
         IN  IF from > Len(s) THEN NaN
             ELSE IF ~IsDigit(s[from]) THEN NaN
             ELSE Num((IF neg THEN -1 ELSE 1) * ParseDigits(s, from, 0))

\* Buffer.prototype.toString(): UTF-8 decoding of one chunk on its own, to a
\* sequence of code points.  One- and two-byte forms; a lead byte without
\* its continuation byte and a stray continuation byte decode to U+FFFD.
ReplacementChar == 65533
IsLead2(b) == b >= 194 /\ b <= 223
IsCont(b) == b >= 128 /\ b <= 191
RECURSIVE Utf8Decode(_, _)
Utf8Decode(bytes, i) ==
    IF i > Len(bytes) THEN <<>>
    ELSE IF bytes[i] < 128 THEN <<bytes[i]>> \o Utf8Decode(bytes, i + 1)
    ELSE IF IsLead2(bytes[i]) /\ i < Len(bytes) /\ IsCont(bytes[i + 1])
         THEN <<(bytes[i] - 192) * 64 + (bytes[i + 1] - 128)>>
                  \o Utf8Decode(bytes, i + 2)
    ELSE <<ReplacementChar>> \o Utf8Decode(bytes, i + 1)
toString(data) == Utf8Decode(data, 1)

\* join() with its default separator, a comma (code point 44).
RECURSIVE JoinCommaFrom(_, _)
JoinCommaFrom(buffer, i) ==
    IF i > Len(buffer) THEN <<>>
    ELSE IF i = Len(buffer) THEN buffer[i]
    ELSE buffer[i] \o <<44>> \o JoinCommaFrom(buffer, i + 1)
joinDefault(buffer) == JoinCommaFrom(buffer, 1)

\* Array.prototype.join(''): the elements one after the other.
RECURSIVE JoinFrom(_, _)
JoinFrom(buffer, i) ==
    IF i > Len(buffer) THEN <<>> ELSE buffer[i] \o JoinFrom(buffer, i + 1)
join(buffer) == JoinFrom(buffer, 1)

----------------------------------------------------------------------------
(* Inputs. *)

\* stdout chunks as the pipe delivers them: "h", the two bytes of U+00E9,
\* and the first of those two bytes alone (a character split by a read).
Chunks == {<<104>>, <<195, 169>>, <<195>>}

\* Exit codes of a child that runs to completion.
ExitCodes == {0, 3}

\* errno of a failed spawn (ENOENT), the 'close' code of a child never started.
SpawnErrno == -2

\* Program constants of exec().
DefaultTimeout == 60000     \* the default of the timeout option
FallbackSeconds == 60       \* timeout || 60
MsPerSecond == 1000         \* timeoutSeconds * 1000
TimerMax == 2147483647      \* setTimeout: a delay above it, or below 1, is 1

\* The timeout field of a form body: absent, or a string.
BodyTimeouts == {Undefined, Str(<<"5">>)}

\* Bodies of POST /api/ereader: none (no multipart form), or url and timeout.
Bodies ==
    {Undefined} \cup [url : {"valid", "invalid"}, format : {"epub"},
                      timeout : BodyTimeouts]

\* The options argument of a direct exec() call: omitted, or {timeout: v}.
ExecOptions ==
    {Undefined} \cup [timeout : {Num(0), Num(5), Num(60000)}]

----------------------------------------------------------------------------
(* exec(command, args, { timeout = 60_000 } = {}) *)

\* The timeout parameter after the destructuring defaults: the default
\* stands in for an omitted options object and for an undefined timeout.
TimeoutParam(opts) ==
    IF opts = Undefined THEN Num(DefaultTimeout)
    ELSE IF opts.timeout = Undefined THEN Num(DefaultTimeout)
    ELSE opts.timeout

\* const timeoutSeconds = timeout || 60
TimeoutSeconds(opts) ==
    IF Truthy(TimeoutParam(opts)) THEN TimeoutParam(opts).v ELSE FallbackSeconds

\* The delay setTimeout(f, ms) arms the timer with.
SetTimeoutDelay(ms) == IF ms < 1 \/ ms > TimerMax THEN 1 ELSE ms

\* The delay of the timer exec() arms: timeoutSeconds * 1000 milliseconds.
TimerDelay(opts) == SetTimeoutDelay(TimeoutSeconds(opts) * MsPerSecond)

\* new Error(`Process timed out after ${timeoutSeconds} seconds.`)
TimeoutError(seconds) ==
    [t |-> "error",
     message |-> <<"Process timed out after ", Num(seconds), " seconds.">>]

\* An exit error that leaves the code out.
ExitErrorNoCode(code) ==
    [t |-> "error", message |-> <<"Process exited with non-zero code.">>]

\* new Error(`Process exited with non-zero code ${code}.`)
ExitError(code) ==
    [t |-> "error",
     message |-> <<"Process exited with non-zero code ", code, ".">>]

\* The state exec() leaves behind: the child spawned without options (hence
\* in the server's process group), the timer armed, the buffer empty, the
\* promise pending.  spawned = FALSE is a spawn that fails (no pid).
\* then is the value of the .then() reaction; direct marks a call whose
\* caller keeps the promise and handles it.
Exec(opts, spawned, then, direct) ==
    [opts |-> opts,
     timeoutSeconds |-> TimeoutSeconds(opts),
     delay |-> TimerDelay(opts),
     timer |-> "armed",
     child |-> IF spawned THEN "running" ELSE "nospawn",
     leader |-> FALSE,
     code |-> IF spawned THEN Undefined ELSE Num(SpawnErrno),
     errored |-> FALSE,
     closed |-> FALSE,
     kill |-> "none",
     buffer |-> <<>>,
     delivered |-> <<>>,
     log |-> {},
     state |-> "pending",
     value |-> Undefined,
     then |-> then,
     direct |-> direct]

\* A reject that settles again a promise already settled.
RejectAgain(op, e) == [op EXCEPT !.state = "rejected", !.value = e]

\* resolve(v) and reject(e) of the promise: they settle a pending promise
\* and do nothing to a settled one.
Resolve(op, v) ==
    IF op.state = "pending" THEN [op EXCEPT !.state = "fulfilled", !.value = v]
    ELSE op
Reject(op, e) ==
    IF op.state = "pending" THEN [op EXCEPT !.state = "rejected", !.value = e]
    ELSE op

\* The names bound where the timer callback runs: its catch parameter, the
\* locals and parameters of exec() and the module's bindings.
TimerCallbackScope ==
    {"exc", "proc", "timeout", "buffer", "resolve", "reject", "timeoutSeconds",
     "command", "args", "express", "fileUpload", "serveIndex", "uuidv4",
     "spawn", "app", "port", "exec", "launchJob", "process", "console"}

\* The catch block of the timer callback.  Its template literal reads cmd
\* before console.error is called: an unbound name throws a ReferenceError
\* out of the block and nothing is logged.
CatchKillFailure ==
    IF "cmd" \in TimerCallbackScope
    THEN [logged |-> TRUE, thrown |-> FALSE]
    ELSE [logged |-> FALSE, thrown |-> TRUE]

\* What process.kill(-proc.pid, 'SIGKILL') can do.  A failed spawn has no
\* pid and -undefined is no pid at all (TypeError).  The signal goes to the
\* process group whose id is the child's pid: there is one only if the child
\* leads a group; once that child has exited the group is there as long as
\* the child is not reaped yet.  No such group is ESRCH.
KillOutcomes(op) ==
    IF op.child = "nospawn" THEN {"TypeError"}
    ELSE IF op.leader /\ op.child = "running" THEN {"ok"}
    ELSE IF op.leader /\ op.child = "exited" THEN {"ok", "ESRCH"}
    ELSE {"ESRCH"}

----------------------------------------------------------------------------
(* GET /api/job/:id and the promise reactions. *)

NoResponse == [status |-> 0, location |-> Undefined, body |-> Undefined]

\* A lookup that falls back to some registered job when there is no entry.
JobsGetFallback(id) ==
    IF id \in DOMAIN jobs THEN PromiseOf(jobs[id])
    ELSE IF DOMAIN jobs # {} THEN PromiseOf(jobs[CHOOSE k \in DOMAIN jobs : TRUE])
    ELSE Undefined

\* app.locals.jobs.get(jobId)
JobsGet(id) == IF id \in DOMAIN jobs THEN PromiseOf(jobs[id]) ELSE Undefined

\* The value and the state of the promise stored in the registry,
\* exec(...).then(() => redirect): fulfilled with redirect when exec's
\* promise is fulfilled, rejected with the same error when it is rejected.
JobValue(op) == IF op.state = "fulfilled" THEN op.then ELSE op.value

\* A handler that reports a job as finished once some poll of the same id
\* has been answered.
PollResponseOnce(jobId, awaited) ==
    LET finished == [status |-> 200, location |-> Undefined,
                     body |-> [id |-> jobId, status |-> "finished"]]
        answered == \E r \in DOMAIN polls :
                        polls[r].id = jobId /\ polls[r].resp.status # 0
    IN  IF awaited = Undefined \/ answered THEN finished
        ELSE IF awaited.state = "rejected"
        THEN [status |-> 500, location |-> Undefined,
              body |-> [id |-> jobId, status |-> "error",
                        error |-> awaited.value.message]]
        ELSE [status |-> 302, location |-> JobValue(awaited), body |-> Undefined]

\* What the handler sends once `await promise` has completed.  awaited is
\* the settled operation, or Undefined when the registry had no entry:
\* `await undefined` completes with undefined.
PollResponse(jobId, awaited) ==
    LET finished == [status |-> 200, location |-> Undefined,
                     body |-> [id |-> jobId, status |-> "finished"]]
    IN  IF awaited = Undefined THEN finished
        ELSE IF awaited.state = "rejected"
        THEN [status |-> 500, location |-> Undefined,
              body |-> [id |-> jobId, status |-> "error",
                        error |-> awaited.value.message]]
        ELSE IF Truthy(JobValue(awaited))
        THEN [status |-> 302, location |-> JobValue(awaited), body |-> Undefined]
        ELSE finished

\* The polls suspended in `await` on operation o.
Waiting(o) ==
    {r \in DOMAIN polls :
        polls[r].promise = PromiseOf(o) /\ polls[r].resp = NoResponse}

\* The promise reactions run when the task that changed operation o from
\* old to new returns: every poll suspended on it answers; a rejection
\* nobody handles is an unhandledRejection, which ends the process in the
\* "throw" mode and is a warning in the "warn" mode.
Microtasks(o, old, new) ==
    LET settles == old.state = "pending" /\ new.state # "pending"
        unhandled == /\ settles
                     /\ new.state = "rejected"
                     /\ ~new.direct
                     /\ Waiting(o) = {}
    IN  /\ polls' = [r \in DOMAIN polls |->
                        IF settles /\ r \in Waiting(o)
                        THEN [polls[r] EXCEPT
                                 !.resp = PollResponse(polls[r].id, new)]
                        ELSE polls[r]]
        /\ faults' = IF unhandled
                      THEN faults \cup {[kind |-> "unhandledRejection", op |-> o]}
                      ELSE faults
        /\ server' = IF unhandled /\ mode = "throw" THEN "crashed" ELSE server

----------------------------------------------------------------------------
(* The callbacks of exec(). *)

ChunksDelivered ==
    LET RECURSIVE Sum(_)
        Sum(i) == IF i = 0 THEN 0 ELSE Len(ops[i].delivered) + Sum(i - 1)
    IN  Sum(Len(ops))

\* The timer callback: kill the group, log a failed kill, reject.
TimerFire(o) ==
    /\ server = "running"
    /\ ops[o].timer = "armed"
    /\ \E outcome \in KillOutcomes(ops[o]) :
         LET op == ops[o]
             dies == outcome = "ok" /\ op.child = "running"
             fired == [op EXCEPT
                          !.timer = "fired",
                          !.kill = outcome,
                          !.child = IF dies THEN "killed" ELSE @,
                          !.code = IF dies THEN JNull ELSE @,
                          !.log = IF outcome # "ok" /\ CatchKillFailure.logged
                                  THEN @ \cup {"kill failed"} ELSE @]
             new == Reject(fired, TimeoutError(op.timeoutSeconds))
         IN  /\ ops' = [ops EXCEPT ![o] = new]
             /\ IF outcome # "ok" /\ CatchKillFailure.thrown
                \* the exception leaves the callback: uncaughtException
                THEN /\ server' = "crashed"
                     /\ faults' = faults \cup
                            {[kind |-> "uncaughtException", op |-> o]}
                     /\ UNCHANGED polls
                ELSE Microtasks(o, op, new)
    /\ UNCHANGED <<mode, nuuid, jobs, posts, registered>>

\* An 'error' handler that also rejects with the error.
ProcErrorRejects(o) ==
    /\ server = "running"
    /\ ops[o].child = "nospawn"
    /\ ~ops[o].errored
    /\ LET op == ops[o]
           new == Reject([op EXCEPT !.errored = TRUE, !.log = @ \cup {"error"}],
                         [t |-> "error", message |-> <<"spawn ENOENT">>])
       IN  /\ ops' = [ops EXCEPT ![o] = new]
           /\ Microtasks(o, op, new)
    /\ UNCHANGED <<mode, nuuid, jobs, posts, registered>>

\* proc.on('error', err => console.error(err)): a failed spawn emits
\* 'error' before 'close'.
ProcError(o) ==
    /\ server = "running"
    /\ ops[o].child = "nospawn"
    /\ ~ops[o].errored
    /\ ops' = [ops EXCEPT ![o].errored = TRUE, ![o].log = @ \cup {"error"}]
    /\ UNCHANGED <<server, mode, faults, nuuid, jobs, polls, posts, registered>>

\* proc.stdout.on('data', ...): decode the chunk, push it, log it.
StdoutData(o, data) ==
    /\ server = "running"
    /\ ops[o].child # "nospawn"
    /\ ~ops[o].closed
    /\ ChunksDelivered < MaxChunks
    /\ ops' = [ops EXCEPT
                  ![o].buffer = Append(@, toString(data)),
                  ![o].delivered = Append(@, data),
                  ![o].log = @ \cup {"output"}]
    /\ UNCHANGED <<server, mode, faults, nuuid, jobs, polls, posts, registered>>

\* A 'close' handler that leaves the timer armed.
ProcCloseNoClear(o) ==
    /\ server = "running"
    /\ ~ops[o].closed
    /\ \/ ops[o].child \in {"exited", "killed"}
       \/ ops[o].child = "nospawn" /\ ops[o].errored
    /\ LET op == ops[o]
           seen == [op EXCEPT !.closed = TRUE]
           new == IF op.code = Num(0)
                  THEN Resolve(seen, Str(join(op.buffer)))
                  ELSE Reject(seen, ExitError(op.code))
       IN  /\ ops' = [ops EXCEPT ![o] = new]
           /\ Microtasks(o, op, new)
    /\ UNCHANGED <<mode, nuuid, jobs, posts, registered>>

\* proc.on('close', code => ...): cancel the timer, settle by the code.
ProcClose(o) ==
    /\ server = "running"
    /\ ~ops[o].closed
    /\ \/ ops[o].child \in {"exited", "killed"}
       \/ ops[o].child = "nospawn" /\ ops[o].errored
    /\ LET op == ops[o]
           cleared == [op EXCEPT
                          !.closed = TRUE,
                          !.timer = IF @ = "armed" THEN "cleared" ELSE @]
           new == IF op.code = Num(0)
                  THEN Resolve(cleared, Str(join(op.buffer)))
                  ELSE Reject(cleared, ExitError(op.code))
       IN  /\ ops' = [ops EXCEPT ![o] = new]
           /\ Microtasks(o, op, new)
    /\ UNCHANGED <<mode, nuuid, jobs, posts, registered>>

\* The child program, on its own: it may make itself the leader of a new
\* process group (setsid, setpgid), and it may exit.
ChildSetsid(o) ==
    /\ server = "running"
    /\ ops[o].child = "running"
    /\ ~ops[o].leader
    /\ ops' = [ops EXCEPT ![o].leader = TRUE]
    /\ UNCHANGED <<server, mode, faults, nuuid, jobs, polls, posts, registered>>

ChildExit(o, code) ==
    /\ server = "running"
    /\ ops[o].child = "running"
    /\ ops' = [ops EXCEPT ![o].child = "exited", ![o].code = Num(code)]
    /\ UNCHANGED <<server, mode, faults, nuuid, jobs, polls, posts, registered>>

----------------------------------------------------------------------------
(* launchJob() and the request handlers. *)

\* uuidv4(): a value no earlier call returned.  The values are numbered in
\* the order of the calls; n calls have been made before this one.
Uuidv4(n) == n + 1

\* A registry replaced by one that holds the new entry alone.
JobsSetAlone(map, key, val) == [k \in {key} |-> val]

\* Map.prototype.set(key, val): a new entry, or a new value under the key.
JobsSet(map, key, val) ==
    [k \in DOMAIN map \cup {key} |-> IF k = key THEN val ELSE map[k]]

\* A launchJob() that returns an id other than the key it stored under.
LaunchJobOtherId(o, n) ==
    [jobId |-> Uuidv4(n + 1), jobs |-> JobsSet(jobs, Uuidv4(n), o)]

\* launchJob(promise), n uuids generated before it: the job id and the
\* registry afterwards.
LaunchJob(o, n) ==
    LET jobId == Uuidv4(n)
    IN  [jobId |-> jobId, jobs |-> JobsSet(jobs, jobId, o)]

\* A handler that takes the url as it comes: only a missing body throws.
BodyErrorMissingOnly(body) ==
    IF body = Undefined THEN "Cannot read properties of undefined" ELSE ""

\* The message of the TypeError the handler's try block throws before it
\* launches anything, '' when it throws none: req.body is undefined unless
\* the request is a multipart form, and new URL() throws on a url that
\* does not parse.
BodyError(body) ==
    IF body = Undefined THEN "Cannot read properties of undefined"
    ELSE IF body.url = "invalid" THEN "Invalid URL"
    ELSE ""

\* app.post('/api/ereader').  The file name is a uuid, '.', and the format:
\* on these encodeURIComponent changes nothing as long as the format is
\* alphanumeric.  req is the request body, kept with the response.
PostEreader(body, spawned) ==
    /\ server = "running"
    /\ Len(posts) < MaxPosts
    /\ IF BodyError(body) # ""
       THEN /\ posts' = Append(posts,
                   [req |-> body, status |-> 500, jobId |-> JNull,
                    body |-> [id |-> JNull, status |-> "error",
                              error |-> BodyError(body)]])
            /\ UNCHANGED <<nuuid, jobs, ops, registered>>
       ELSE LET timeout == parseInt(body.timeout)
                basename == Uuidv4(nuuid)
                redirect == Str(<<"/link?fname=", basename, ".", body.format>>)
                o == Len(ops) + 1
                launched == LaunchJob(o, nuuid + 1)
            IN  /\ ops' = Append(ops,
                       Exec([timeout |-> timeout], spawned, redirect, FALSE))
                /\ nuuid' = nuuid + 2
                /\ jobs' = launched.jobs
                /\ registered' = Append(registered, <<launched.jobId, o>>)
                /\ posts' = Append(posts,
                       [req |-> body, status |-> 200,
                        jobId |-> Num(launched.jobId),
                        body |-> <<"Job launched: ", launched.jobId>>])
    /\ UNCHANGED <<server, mode, faults, polls>>

\* The job ids launchJob() has returned so far.
Issued == {registered[i][1] : i \in DOMAIN registered}

\* app.get('/api/job/:id'): look the promise up and await it.  The handler
\* answers in this task when there is nothing to wait for (no entry, or a
\* settled promise) and is suspended otherwise.
GetJob(id) ==
    /\ server = "running"
    /\ Len(polls) < MaxPolls
    /\ LET promise == JobsGet(id)
           awaited == IF promise = Undefined THEN Undefined ELSE ops[promise.op]
           pending == IF promise = Undefined THEN FALSE
                      ELSE awaited.state = "pending"
       IN  polls' = Append(polls,
               [id |-> id, promise |-> promise, known |-> id \in Issued,
                resp |-> IF pending THEN NoResponse
                         ELSE PollResponse(id, awaited)])
    /\ UNCHANGED <<server, mode, faults, nuuid, jobs, ops, posts, registered>>

\* A direct call of exec() by a caller that awaits the returned promise.
ExecCall(opts, spawned) ==
    /\ server = "running"
    /\ Len(ops) < MaxExecs
    /\ ops' = Append(ops, Exec(opts, spawned, Undefined, TRUE))
    /\ UNCHANGED <<server, mode, faults, nuuid, jobs, polls, posts, registered>>

----------------------------------------------------------------------------
(* Specifications. *)

Init ==
    /\ server = "running"
    /\ mode \in {"throw", "warn"}
    /\ faults = {}
    /\ nuuid = 0
    /\ jobs = <<>>
    /\ ops = <<>>
    /\ polls = <<>>
    /\ posts = <<>>
    /\ registered = <<>>

\* The ids a client may ask for: those launchJob() has returned, and one it
\* has not: the one the next launchJob() would return, which a later POST
\* may still register and which is never registered when there is none.
PollIds == Issued \cup {Uuidv4(nuuid + 1)}

\* The output the server's children write.
ServerChunks == {<<104>>}

\* The server.
Next ==
    \/ \E body \in Bodies, spawned \in BOOLEAN : PostEreader(body, spawned)
    \/ \E id \in PollIds : GetJob(id)
    \/ \E o \in DOMAIN ops : TimerFire(o)
    \/ \E o \in DOMAIN ops : ProcError(o)
    \/ \E o \in DOMAIN ops, data \in ServerChunks : StdoutData(o, data)
    \/ \E o \in DOMAIN ops : ProcClose(o)
    \/ \E o \in DOMAIN ops : ChildSetsid(o)
    \/ \E o \in DOMAIN ops, code \in ExitCodes : ChildExit(o, code)

Spec == Init /\ [][Next]_vars

\* exec() on its own, called directly; the runtime mode plays no part.
InitExec == Init /\ mode = "throw"

NextExec ==
    \/ \E opts \in ExecOptions, spawned \in BOOLEAN : ExecCall(opts, spawned)
    \/ \E o \in DOMAIN ops : TimerFire(o)
    \/ \E o \in DOMAIN ops : ProcError(o)
    \/ \E o \in DOMAIN ops, data \in Chunks : StdoutData(o, data)
    \/ \E o \in DOMAIN ops : ProcClose(o)
    \/ \E o \in DOMAIN ops : ChildSetsid(o)
    \/ \E o \in DOMAIN ops, code \in ExitCodes : ChildExit(o, code)

SpecExec == InitExec /\ [][NextExec]_vars

----------------------------------------------------------------------------
(* Properties. *)

\* The text of the chunks delivered so far, each decoded on its own, in the
\* order of arrival.
RECURSIVE TextOf(_, _)
TextOf(chunks, n) ==
    IF n = 0 THEN <<>> ELSE TextOf(chunks, n - 1) \o toString(chunks[n])

\* C1: a settled operation never changes its state or its value again,
\* whichever of the timer callback and the 'close' handler runs, and in
\* whichever order.
C1_SettlesOnce ==
    [][\A o \in DOMAIN ops :
          ops[o].state # "pending" =>
              /\ ops'[o].state = ops[o].state
              /\ ops'[o].value = ops[o].value]_vars

\* C1 witness: the timer has fired, the 'close' event was handled after it,
\* and the operation is still failed with the timeout error.
C1_Witness ==
    \E o \in DOMAIN ops :
        /\ ops[o].timer = "fired"
        /\ ops[o].closed
        /\ ops[o].state = "rejected"
        /\ ops[o].value = TimeoutError(ops[o].timeoutSeconds)

\* C2: once the timer has fired, the operation is failed with 'Process
\* timed out after <N> seconds.', N the configured timeout, and the child is
\* no longer running.
C2_TimeoutKillsChild ==
    \A o \in DOMAIN ops :
        ops[o].timer = "fired" =>
            /\ ops[o].state = "rejected"
            /\ ops[o].value.message =
                   <<"Process timed out after ", Num(ops[o].timeoutSeconds),
                     " seconds.">>
            /\ ops[o].child # "running"

\* C3: a poll whose id the registry does not hold is answered with a client
\* error (4xx), not with 'finished', a redirect or a server error.
C3_UnknownIdClientError ==
    \A r \in DOMAIN polls :
        polls[r].promise = Undefined =>
            polls[r].resp.status >= 400 /\ polls[r].resp.status <= 499

\* C4: with the timeout omitted, zero, or 60,000, the timer is armed for
\* 60,000 ms.
C4_DefaultTimeoutDelay ==
    \A o \in DOMAIN ops :
        ops[o].opts \in {Undefined, [timeout |-> Num(0)],
                         [timeout |-> Num(60000)]} =>
            ops[o].delay = 60000

\* C5: after a 'close' with code 0 that came before the timer fired, the
\* operation is succeeded and its result is the text of the chunks
\* delivered, in arrival order, nothing between them.
C5_ResultIsConcatenation ==
    \A o \in DOMAIN ops :
        (ops[o].closed /\ ops[o].code = Num(0) /\ ops[o].timer = "cleared") =>
            /\ ops[o].state = "fulfilled"
            /\ ops[o].value =
                   Str(TextOf(ops[o].delivered, Len(ops[o].delivered)))

\* C5 witness: a succeeded operation that received two chunks, the second
\* of them not one the first could be swapped with.
C5_Witness ==
    \E o \in DOMAIN ops :
        /\ ops[o].state = "fulfilled"
        /\ ops[o].code = Num(0)
        /\ Len(ops[o].delivered) = 2
        /\ ops[o].delivered[1] # ops[o].delivered[2]

\* C6: after a 'close' with a non-zero code c that came before the timer
\* fired, the operation is failed with 'Process exited with non-zero code
\* c.', which is not the timeout message, whatever was received on stdout.
C6_NonZeroExitFails ==
    \A o \in DOMAIN ops :
        (ops[o].closed /\ ops[o].code # Num(0) /\ ops[o].timer = "cleared") =>
            /\ ops[o].state = "rejected"
            /\ ops[o].value.message =
                   <<"Process exited with non-zero code ", ops[o].code, ".">>
            /\ ops[o].value # TimeoutError(ops[o].timeoutSeconds)

\* C6 witness: a child that wrote to stdout and exited with code 3 before
\* the timer fired.
C6_Witness ==
    \E o \in DOMAIN ops :
        /\ ops[o].closed
        /\ ops[o].code = Num(3)
        /\ ops[o].timer = "cleared"
        /\ Len(ops[o].delivered) > 0
        /\ ops[o].state = "rejected"

\* C7: the ids launchJob() has returned are pairwise distinct, each still
\* maps to the operation registered under it, and the registry holds
\* exactly these ids: none was lost, overwritten or removed.
C7_RegistryKeepsEveryJob ==
    /\ \A i, j \in DOMAIN registered :
          i # j => registered[i][1] # registered[j][1]
    /\ \A i \in DOMAIN registered :
          /\ registered[i][1] \in DOMAIN jobs
          /\ jobs[registered[i][1]] = registered[i][2]
    /\ Cardinality(DOMAIN jobs) = Len(registered)

\* C7 witness: two registrations with a lookup made between them.
C7_Witness ==
    /\ Len(registered) = 2
    /\ \E r \in DOMAIN polls :
          polls[r].known /\ polls[r].promise = PromiseOf(registered[1][2])

\* C8: an id launchJob() never returned is looked up as undefined, which
\* is no operation; a lookup made by a poll returned undefined when the id
\* was not registered and the id's own operation when it was.
C8_UnknownIdIsUndefined ==
    /\ \A id \in (1..(nuuid + 2)) \ Issued : JobsGet(id) = Undefined
    /\ \A o \in DOMAIN ops : PromiseOf(o) # Undefined
    /\ \A r \in DOMAIN polls :
          IF polls[r].known
          THEN \E i \in DOMAIN registered :
                   /\ registered[i][1] = polls[r].id
                   /\ polls[r].promise = PromiseOf(registered[i][2])
          ELSE polls[r].promise = Undefined

\* C8 witness: a poll for an unregistered id while two jobs are registered.
C8_Witness ==
    /\ Len(registered) = 2
    /\ \E r \in DOMAIN polls :
          /\ ~polls[r].known
          /\ polls[r].id \notin Issued
          /\ polls[r].promise = Undefined

\* C9: no failure of a subprocess reaches the process level as an uncaught
\* exception or an unhandled rejection, and the server keeps running.
C9_NoFaultEscapes == faults = {} /\ server = "running"

\* C10: when the timer has fired and the kill failed, the operation is
\* failed with the timeout message, the kill failure is logged, and no
\* exception left the timer callback.
C10_KillFailureOnlyLogged ==
    \A o \in DOMAIN ops :
        (ops[o].timer = "fired" /\ ops[o].kill \in {"ESRCH", "TypeError"}) =>
            /\ ops[o].state = "rejected"
            /\ ops[o].value = TimeoutError(ops[o].timeoutSeconds)
            /\ "kill failed" \in ops[o].log
            /\ [kind |-> "uncaughtException", op |-> o] \notin faults

\* The operation a poll awaits, for a poll that found one in the registry.
Awaited(r) == ops[polls[r].promise.op]

\* C11: a poll of a registered job has no response while its operation is
\* pending and, once the operation is settled, has its one response: the
\* redirect to the job's location exactly when the operation succeeded, the
\* error payload with the failure message exactly when it failed.
C11_PollAnsweredOnSettlement ==
    \A r \in DOMAIN polls :
        polls[r].promise # Undefined =>
            CASE Awaited(r).state = "pending" -> polls[r].resp = NoResponse
              [] Awaited(r).state = "fulfilled" ->
                    /\ polls[r].resp.status = 302
                    /\ polls[r].resp.location = Awaited(r).then
              [] Awaited(r).state = "rejected" ->
                    /\ polls[r].resp.status = 500
                    /\ polls[r].resp.body.error = Awaited(r).value.message

\* The responses to the requests that launched a job, in order.
Launched == SelectSeq(posts, LAMBDA p : p.status = 200)

\* C12: every operation started by a POST has its response already, pending
\* or not: the k-th launching response carries the id under which the k-th
\* operation is registered.
C12_ResponseDoesNotWait ==
    /\ Len(Launched) = Len(ops)
    /\ \A o \in DOMAIN ops :
          /\ Launched[o].jobId.v \in DOMAIN jobs
          /\ jobs[Launched[o].jobId.v] = o
          /\ Launched[o].body = <<"Job launched: ", Launched[o].jobId.v>>

\* C12 witness: the response was sent and the operation is still pending,
\* its child running, its timer armed, no 'close' handled.
C12_Witness ==
    \E o \in DOMAIN ops :
        /\ Len(Launched) >= o
        /\ ops[o].state = "pending"
        /\ ops[o].child = "running"
        /\ ops[o].timer = "armed"
        /\ ~ops[o].closed

\* C13: the 'close' handler, run while the timer is armed, cancels it; a
\* cancelled timer stays cancelled, so its callback never runs, and no kill
\* was or is sent for the operation.
C13_CloseCancelsTimer ==
    [][\A o \in DOMAIN ops :
          /\ (~ops[o].closed /\ ops'[o].closed /\ ops[o].timer = "armed") =>
                 ops'[o].timer = "cleared"
          /\ ops[o].timer = "cleared" =>
                 /\ ops[o].kill = "none"
                 /\ ops'[o].timer = "cleared"
                 /\ ops'[o].kill = "none"
          /\ ops'[o].closed => ops'[o].timer # "armed"]_vars

\* C13 witness: the child exited, 'close' was handled before the timer
\* fired, the timer is cancelled and no kill was sent.
C13_Witness ==
    \E o \in DOMAIN ops :
        /\ ops[o].closed
        /\ ops[o].timer = "cleared"
        /\ ops[o].kill = "none"
        /\ ops[o].child = "exited"

\* C14 as stated: the timer callback and the 'close' handler never both
\* run for one operation.
C14_OnlyOnePathRuns ==
    \A o \in DOMAIN ops : ~(ops[o].timer = "fired" /\ ops[o].closed)

\* C14 amended: at most one of the two paths settles the operation.  Once
\* the timer callback has run the operation is failed with the timeout
\* error and stays so when the 'close' handler runs after it; when the
\* 'close' handler ran first the timer is cancelled, no kill was sent and
\* the operation is settled by the exit code.
C14_OnlyOnePathSettles ==
    \A o \in DOMAIN ops :
        /\ ops[o].timer = "fired" =>
              /\ ops[o].state = "rejected"
              /\ ops[o].value = TimeoutError(ops[o].timeoutSeconds)
        /\ (ops[o].closed /\ ops[o].timer # "fired") =>
              /\ ops[o].timer = "cleared"
              /\ ops[o].kill = "none"
              /\ IF ops[o].code = Num(0)
                 THEN ops[o].state = "fulfilled"
                 ELSE ops[o].value = ExitError(ops[o].code)

\* C14 witness: the kill went through, the child died of it, and the
\* 'close' handler ran after the timer callback with the null exit code.
C14_Witness ==
    \E o \in DOMAIN ops :
        /\ ops[o].kill = "ok"
        /\ ops[o].child = "killed"
        /\ ops[o].closed
        /\ ops[o].code = JNull
        /\ ops[o].state = "rejected"

\* All answered polls that found the same operation got the same response.
SameOutcome ==
    \A r1, r2 \in DOMAIN polls :
        (/\ polls[r1].promise # Undefined
         /\ polls[r1].promise = polls[r2].promise
         /\ polls[r1].resp # NoResponse
         /\ polls[r2].resp # NoResponse) =>
            /\ polls[r1].resp.status = polls[r2].resp.status
            /\ polls[r1].resp.location = polls[r2].resp.location
            /\ polls[r1].resp.body = polls[r2].resp.body

\* C15: an operation has the one child exec() spawned, which never runs
\* again once it has stopped, and there are as many operations as
\* launching POSTs; a poll request changes neither the operations nor the
\* registry; a response given is not taken back; and all the answered
\* polls of one registered job got the same response.
C15_NoRetryStableOutcome ==
    [][/\ \A o \in DOMAIN ops :
             /\ o \in DOMAIN ops'
             /\ ops[o].child # "running" => ops'[o].child # "running"
       /\ Len(ops') = Len(Launched')
       /\ Len(polls') > Len(polls) =>
             /\ ops' = ops
             /\ jobs' = jobs
             /\ registered' = registered
       /\ \A r \in DOMAIN polls :
             polls[r].resp # NoResponse => polls'[r] = polls[r]
       /\ SameOutcome']_vars

\* C15 witness: two polls of one registered job, both answered with the
\* operation's failure, the child having stopped.
C15_Witness ==
    \E r1, r2 \in DOMAIN polls :
        /\ r1 < r2
        /\ polls[r1].promise # Undefined
        /\ polls[r1].promise = polls[r2].promise
        /\ polls[r1].resp.status = 500
        /\ polls[r2].resp.status = 500
        /\ Awaited(r1).child # "running"

\* C16: the step that handles the child's 'error' event logs the error and
\* leaves the operation pending, with its value, its buffer, its timer, its
\* kill record and its 'close' flag as they were, and the server running.
C16_ErrorOnlyLogged ==
    [][\A o \in DOMAIN ops :
          (~ops[o].errored /\ ops'[o].errored) =>
              /\ "error" \in ops'[o].log
              /\ ops[o].state = "pending"
              /\ ops'[o].state = "pending"
              /\ ops'[o].value = ops[o].value
              /\ ops'[o].buffer = ops[o].buffer
              /\ ops'[o].timer = ops[o].timer
              /\ ops'[o].timer = "armed"
              /\ ops'[o].kill = ops[o].kill
              /\ ops'[o].closed = ops[o].closed
              /\ server' = server
              /\ faults' = faults]_vars

\* C16 witness: the 'error' event of a failed spawn was handled and logged,
\* and the operation is pending with its timer armed, 'close' not yet seen.
C16_Witness ==
    \E o \in DOMAIN ops :
        /\ ops[o].errored
        /\ "error" \in ops[o].log
        /\ ops[o].state = "pending"
        /\ ops[o].timer = "armed"
        /\ ~ops[o].closed

\* C17: an operation does not stay pending for ever.  Its armed timer
\* settles it when nothing else does, so a pending operation must be one
\* whose timer callback can still run.
C17_PendingCanSettle ==
    \A o \in DOMAIN ops :
        ops[o].state = "pending" => ENABLED TimerFire(o)

\* A request body on which the handler throws before it launches anything:
\* no body, or a url that does not parse.
BadBody(body) == IF body = Undefined THEN TRUE ELSE body.url = "invalid"

\* C18: the step that handles a POST with such a body answers 500 with an
\* error payload and a null id, and changes nothing else: no operation (no
\* child, no timer), no uuid, no registry entry, no poll, no fault.
C18_BadBodyChangesNothing ==
    [][(Len(posts') > Len(posts) /\ BadBody(posts'[Len(posts')].req)) =>
          /\ posts'[Len(posts')].status = 500
          /\ posts'[Len(posts')].jobId = JNull
          /\ posts'[Len(posts')].body.status = "error"
          /\ UNCHANGED <<ops, jobs, nuuid, registered, polls, server, faults>>
      ]_vars

\* C18 witness: a POST with a url that does not parse was answered 500
\* after a job had been launched, and there is still that one operation
\* and that one registry entry.
C18_Witness ==
    /\ Len(posts) = 2
    /\ posts[1].status = 200
    /\ posts[2].status = 500
    /\ posts[2].req # Undefined
    /\ Len(ops) = 1
    /\ DOMAIN jobs = {posts[1].jobId.v}

====
